---------------------------- MODULE Spec2Model ----------------------------
(***************************************************************************)
(* SentiStock Analytics (AB0204/Stock-Agent).                              *)
(*                                                                         *)
(* The model follows the per-ticker "Stock Breakdown" block of the         *)
(* Streamlit dashboard (src/app.py, lines 542-890) and the `analyze`       *)
(* command of the command line tool (src/main.py, lines 35-124).           *)
(*                                                                         *)
(* Numbers.  Python floats are modelled as exact rationals <<num, den>>    *)
(* in lowest terms with den > 0, so that equality of two values is         *)
(* equality of the pairs.  The pair <<0, 0>> stands for Python's None      *)
(* (and for a local variable that has not been assigned yet).              *)
(*                                                                         *)
(* Dictionaries are records; a key that the provider did not send is a     *)
(* field that is not in the record's DOMAIN.                               *)
(***************************************************************************)
EXTENDS Integers, Sequences, FiniteSets, TLC

\* Longest feed enumerated over every combination of the record pool.
MaxNews == 3

\* Longest feed enumerated for the news-volume (buzz) tiers.
MaxVolume == 16

\* Minutes that the clock of datetime.now() advances over the runs compared.
MaxClock == 2

-----------------------------------------------------------------------------
(* Python values                                                           *)

None == <<0, 0>>

IsNum(x) == x[2] # 0

Abs(n) == IF n < 0 THEN -n ELSE n

RECURSIVE GCD(_, _)
GCD(a, b) == IF b = 0 THEN a ELSE GCD(b, a % b)

\* The rational n/d (d # 0) in lowest terms with a positive denominator.
Rat(n, d) ==
    LET g == GCD(Abs(n), Abs(d))
        s == IF d < 0 THEN -1 ELSE 1
    IN  <<(s * n) \div g, (s * d) \div g>>

Num(n) == <<n, 1>>

\* x + y, x - y, x * y, x / y (y # 0), x < y, x > y on floats.
RAdd(x, y) == Rat(x[1] * y[2] + y[1] * x[2], x[2] * y[2])
RSub(x, y) == Rat(x[1] * y[2] - y[1] * x[2], x[2] * y[2])
RMul(x, y) == Rat(x[1] * y[1], x[2] * y[2])
RDiv(x, y) == Rat(x[1] * y[2], x[2] * y[1])
RLt(x, y) == x[1] * y[2] < y[1] * x[2]
RGt(x, y) == RLt(y, x)
RLe(x, y) == ~RLt(y, x)

\* dict.get(key, default)
Get(d, key, default) == IF key \in DOMAIN d THEN d[key] ELSE default

\* `key in d`
Has(d, key) == key \in DOMAIN d

-----------------------------------------------------------------------------
(* TextBlob(title).sentiment.polarity.  The lexicon is the library's; a    *)
(* headline is modelled by a key whose polarity the table below fixes.     *)
(* The empty string has polarity 0, every polarity lies in [-1, 1].        *)

Polarity(title) ==
    CASE title = ""                 -> Num(0)
      [] title = "best quarter"     -> Num(1)
      [] title = "worst quarter"    -> Num(-1)
      [] title = "bad outlook"      -> Rat(-7, 10)
      [] title = "great results"    -> Rat(4, 5)
      [] title = "solid demand"     -> Rat(2, 5)
      [] title = "modest gains"     -> Rat(1, 5)
      [] title = "slightly up"      -> Rat(1, 10)
      [] title = "a bit up"         -> Rat(101, 1000)
      [] title = "slightly down"    -> Rat(-1, 10)
      [] title = "a bit down"       -> Rat(-101, 1000)
      [] OTHER                      -> Num(0)

-----------------------------------------------------------------------------
(* Helper functions of src/app.py                                          *)

\* The scenario table with a negative multiplier for the recession scenario.
scenarios_negative_recession ==
    [x \in {"None", "Interest Rates +1%", "Tech Acquisition Announced",
            "Global Recession Fear", "Earnings Beat Expectation",
            "Supply Chain Disruption"} |->
        CASE x = "None"                       -> Num(1)
          [] x = "Interest Rates +1%"         -> Rat(3, 4)
          [] x = "Tech Acquisition Announced" -> Rat(13, 10)
          [] x = "Global Recession Fear"      -> Rat(-1, 2)
          [] x = "Earnings Beat Expectation"  -> Rat(7, 5)
          [] x = "Supply Chain Disruption"    -> Rat(13, 20)]

\* The nearest integer to x, ties to the even one: the digits that the
\* format `:.2f` keeps of 100 * x.
RoundHalfEven(x) ==
    LET q == x[1] \div x[2]
        r == x[1] % x[2]
    IN  IF 2 * r > x[2] THEN q + 1
        ELSE IF 2 * r < x[2] THEN q
        ELSE IF q % 2 = 0 THEN q ELSE q + 1

\* f"{x:.2f}", as the number of hundredths.
Fixed2(x) == RoundHalfEven(RMul(x, Num(100)))

\* format_large_number.  Amounts are held in millions of dollars, so the
\* thresholds 1e12, 1e9, 1e6 read 1000000, 1000, 1; the result is "N/A" or
\* the formatted number, as its hundredths and its suffix.
format_large_number(num) ==
    IF num = None THEN [text |-> "N/A"]
    ELSE IF RLe(Num(1000000), num)
         THEN [hundredths |-> Fixed2(RDiv(num, Num(1000000))), suffix |-> "T"]
    ELSE IF RLe(Num(1000), num)
         THEN [hundredths |-> Fixed2(RDiv(num, Num(1000))), suffix |-> "B"]
    ELSE IF RLe(Num(1), num)
         THEN [hundredths |-> Fixed2(num), suffix |-> "M"]
    ELSE [hundredths |-> RoundHalfEven(RMul(num, Num(100000000))), suffix |-> ""]

\* The scenario table of apply_scenario.
scenarios ==
    [x \in {"None", "Interest Rates +1%", "Tech Acquisition Announced",
            "Global Recession Fear", "Earnings Beat Expectation",
            "Supply Chain Disruption"} |->
        CASE x = "None"                       -> Num(1)
          [] x = "Interest Rates +1%"         -> Rat(3, 4)
          [] x = "Tech Acquisition Announced" -> Rat(13, 10)
          [] x = "Global Recession Fear"      -> Rat(1, 2)
          [] x = "Earnings Beat Expectation"  -> Rat(7, 5)
          [] x = "Supply Chain Disruption"    -> Rat(13, 20)]

\* apply_scenario with the scenario argument ignored.
apply_scenario_ignoring(base, scenario) == base

\* apply_scenario with scenarios.get(scenario, 0.0).
apply_scenario_default_zero(base, scenario) ==
    RMul(base, Get(scenarios, scenario, Num(0)))

\* base_sentiment * scenarios.get(scenario, 1.0)
apply_scenario(base, scenario) ==
    RMul(base, Get(scenarios, scenario, Num(1)))

get_sentiment_label(score) ==
    IF RGt(score, Rat(1, 10)) THEN "BULLISH"
    ELSE IF RLt(score, Rat(-1, 10)) THEN "BEARISH"
    ELSE "NEUTRAL"

-----------------------------------------------------------------------------
(* What the providers can return                                           *)

\* A news record with a top-level title, one with the title nested under
\* "content", and the other shapes yfinance has used.
Flat(t) == [title |-> t, publisher |-> "Wire"]
Nested(t) == [content |-> [title |-> t]]
Untitled == [publisher |-> "Wire"]
EmptyThenNested(t) == [title |-> "", content |-> [title |-> t]]
ContentNoTitle == [content |-> [summary |-> "s"]]

RecordPool == {Flat("best quarter"), Nested("bad outlook"), Untitled}

RECURSIVE SeqsUpTo(_, _)
SeqsUpTo(S, n) ==
    IF n = 0 THEN {<<>>}
    ELSE LET shorter == SeqsUpTo(S, n - 1)
         IN  shorter \cup {Append(q, r) : q \in shorter, r \in S}

\* Every feed of at most MaxNews records of the pool.
MixedFeeds == SeqsUpTo(RecordPool, MaxNews)

\* Feeds of 0..MaxVolume records, alternating two records.
VolumeFeeds ==
    {[i \in 1..n |-> IF i % 2 = 1 THEN Flat("modest gains")
                                  ELSE Nested("bad outlook")] : n \in 0..MaxVolume}

\* One-record feeds: polarities on and next to the +/-0.1 thresholds, the
\* extremes, and each record shape.
SingleFeeds ==
    {<<Flat(t)>> : t \in {"slightly up", "a bit up", "slightly down",
                          "a bit down", "worst quarter", "great results"}}
    \cup {<<EmptyThenNested("solid demand")>>, <<ContentNoTitle>>}

\* Polarities 0.4, 0.2, -0.1.
ThreeHeadlines ==
    <<Flat("solid demand"), Nested("modest gains"), Flat("slightly down")>>

NewsFeeds == MixedFeeds \cup VolumeFeeds \cup SingleFeeds \cup {ThreeHeadlines}

PriceInfos ==
    {<<>>, [regularMarketPrice |-> Num(50)], [currentPrice |-> Num(100)],
     [currentPrice |-> Num(-10)]}

BetaInfos ==
    {<<>>, [beta |-> None]}
    \cup {[beta |-> b] : b \in {Rat(1, 2), Rat(4, 5), Rat(6, 5), Rat(3, 2), Num(2)}}

\* info with a market capitalisation (in millions of dollars): 3.21e12,
\* 45.5e9, 120e6, 250000 dollars, and None.
CapInfos ==
    {[currentPrice |-> Num(100), marketCap |-> c] :
        c \in {Num(3210000), Num(45500), Num(120), Rat(1, 4), None}}

\* stock.history(...): an empty frame, or a frame with rows.
Histories == {"empty", "rows"}

Infos == {p @@ b : p \in PriceInfos, b \in BetaInfos} \cup CapInfos

RecognizedScenarios == DOMAIN scenarios

\* The names apply_scenario is called with: the six of the selectbox and one
\* that its table does not hold.
ScenarioNames == RecognizedScenarios \cup {"Oil Price Shock"}

-----------------------------------------------------------------------------
(* State                                                                   *)

VARIABLES
    pc,                 \* position in the per-ticker block of src/app.py
    error,              \* the exception that ended the block, "" if none
    info, news,         \* stock.info, stock.news
    current_price, beta,
    selected_scenario,
    total_polarity, analyzed_news, avg_polarity,
    base_sentiment, adjusted_sentiment, recommendation,
    target_price, upside_percent,
    risk_rating,
    news_volume, social_buzz, buzz_mentions,
    progress_value,     \* the argument of st.progress
    hist,               \* stock.history(...): "empty" or "rows"
    page,               \* what the block has put on the page for this ticker
    run,                \* the script run: widget values and top-level locals
    session,            \* st.session_state, the page in the browser, the clock
    cli                 \* the locals and the output of `analyze` in src/main.py

fetched == <<info, news>>
fundamentals == <<current_price, beta>>
sentiment == <<total_polarity, analyzed_news, avg_polarity>>
signal == <<base_sentiment, adjusted_sentiment, recommendation>>
pricing == <<target_price, upside_percent>>
buzz == <<news_volume, social_buzz, buzz_mentions>>

script == <<run, session>>

vars == <<pc, error, fetched, fundamentals, selected_scenario, sentiment,
          signal, pricing, risk_rating, buzz, progress_value, hist, page,
          script, cli>>

\* A local name that no statement has bound yet.
Unbound == "<unbound>"

CliIdle ==
    [pc |-> "idle", error |-> "", news |-> <<>>, total_polarity |-> None,
     analyzed_news |-> <<>>, avg_polarity |-> None,
     sentiment_label |-> Unbound, printed |-> {}]

\* The key of a button, and the key of no button.
Key(kind, ticker) == <<kind, ticker>>
NoKey == Key("", "")

\* Nothing is shown yet for the ticker.
BlankPage ==
    [toggle |-> Unbound, success |-> Unbound, market_cap |-> Unbound,
     chart |-> Unbound, warning |-> FALSE, certificate |-> <<>>, pdf |-> <<>>]

\* No script run has started.
NoRun ==
    [pc |-> "idle", clicked |-> NoKey, watchlist_ticker |-> Unbound,
     loaded |-> Unbound, selected_tickers |-> <<>>, i |-> 0, toggled |-> 0,
     analyzed |-> <<>>]

\* if 'watchlist' not in st.session_state: st.session_state.watchlist = []
NewSession ==
    [watchlist |-> <<>>, rendered |-> {}, clock |-> 0, issued |-> <<>>]

Init ==
    /\ pc = "start"
    /\ error = ""
    /\ info = <<>>
    /\ news = <<>>
    /\ current_price = None
    /\ beta = None
    /\ selected_scenario = Unbound
    /\ total_polarity = None
    /\ analyzed_news = <<>>
    /\ avg_polarity = None
    /\ base_sentiment = None
    /\ adjusted_sentiment = None
    /\ recommendation = Unbound
    /\ target_price = None
    /\ upside_percent = None
    /\ risk_rating = Unbound
    /\ news_volume = -1
    /\ social_buzz = Unbound
    /\ buzz_mentions = Unbound
    /\ progress_value = None
    /\ hist = Unbound
    /\ page = BlankPage
    /\ run = NoRun
    /\ session = NewSession
    /\ cli = CliIdle

-----------------------------------------------------------------------------
(* News aggregation (the same loop in src/app.py and src/main.py)          *)

\* ExtractTitle without the look under "content".
ExtractTitle_top_level_only(item) == Get(item, "title", "")

\* title = item.get('title', '')
\* if not title and 'content' in item: title = item['content'].get('title', '')
ExtractTitle(item) ==
    LET title == Get(item, "title", "")
    IN  IF title = "" /\ Has(item, "content")
        THEN Get(item.content, "title", "")
        ELSE title

\* total_polarity after the first k records: starts at 0, `+=` per record.
RECURSIVE SumPolarity(_, _)
SumPolarity(feed, k) ==
    IF k = 0 THEN Num(0)
    ELSE RAdd(SumPolarity(feed, k - 1), Polarity(ExtractTitle(feed[k])))

\* Analyze with the records that have no title skipped.
Analyze_skipping_untitled(feed) ==
    LET titled == SelectSeq(feed, LAMBDA item : ExtractTitle(item) # "")
    IN  [i \in 1..Len(titled) |->
            [title |-> ExtractTitle(titled[i]),
             polarity |-> Polarity(ExtractTitle(titled[i]))]]

\* analyzed_news after the loop: one entry appended per record.
Analyze(feed) ==
    [i \in 1..Len(feed) |->
        [title |-> ExtractTitle(feed[i]),
         polarity |-> Polarity(ExtractTitle(feed[i]))]]

\* avg_polarity: total_polarity / len(news) `if news:`, else 0.
AvgPolarity(feed) ==
    IF feed # <<>>
    THEN RDiv(SumPolarity(feed, Len(feed)), Num(Len(feed)))
    ELSE Num(0)

-----------------------------------------------------------------------------
(* The same loop as Python executes it, in IEEE 754 binary64 with rounding *)
(* to nearest, ties to even.  A float is [s, m, e]: sign s (1: negative),  *)
(* significand m as 53 bits, most significant first and m[1] = 1, and the  *)
(* exponent e of the last bit, so that the value is (-1)^s * m * 2^e; zero *)
(* has the empty significand.  Polarities are far from the subnormal and   *)
(* overflow ranges, which are left out.                                    *)

F64Zero == [s |-> 0, m |-> <<>>, e |-> 0]

Zeros(k) == [i \in 1..k |-> 0]

\* The bits of a natural number, most significant first.
RECURSIVE IntBits(_)
IntBits(n) == IF n = 0 THEN <<>> ELSE Append(IntBits(n \div 2), n % 2)

\* The value of the bits lo..hi of a bit string, and a value as c bits.
\* The operators below work on Limb bits at a time.
Limb == 8

RECURSIVE BitsVal(_, _, _)
BitsVal(b, lo, hi) == IF lo > hi THEN 0 ELSE 2 * BitsVal(b, lo, hi - 1) + b[hi]

ValBits(v, c) == [i \in 1..c |-> (v \div 2^(c - i)) % 2]

\* A bit string without its leading zeros.
RECURSIVE Strip(_)
Strip(b) ==
    IF Len(b) >= Limb /\ SubSeq(b, 1, Limb) = ValBits(0, Limb)
    THEN Strip(SubSeq(b, Limb + 1, Len(b)))
    ELSE IF b # <<>> /\ Head(b) = 0 THEN Strip(Tail(b))
    ELSE b

\* a + b + carry on the first i bits of two bit strings of one length.
RECURSIVE AddBits(_, _, _, _)
AddBits(a, b, i, carry) ==
    IF i = 0 THEN (IF carry = 1 THEN <<1>> ELSE <<>>)
    ELSE LET c == IF i >= Limb THEN Limb ELSE i
             t == BitsVal(a, i - c + 1, i) + BitsVal(b, i - c + 1, i) + carry
         IN  AddBits(a, b, i - c, t \div 2^c) \o ValBits(t % 2^c, c)

\* a - b - borrow on the first i bits of two bit strings of one length,
\* a >= b.
RECURSIVE SubBits(_, _, _, _)
SubBits(a, b, i, borrow) ==
    IF i = 0 THEN <<>>
    ELSE LET c == IF i >= Limb THEN Limb ELSE i
             t == BitsVal(a, i - c + 1, i) - BitsVal(b, i - c + 1, i) - borrow
         IN  IF t < 0 THEN SubBits(a, b, i - c, 1) \o ValBits(t + 2^c, c)
                      ELSE SubBits(a, b, i - c, 0) \o ValBits(t, c)

\* a > b for two bit strings of one length.
GreaterBits(a, b) ==
    \E i \in 1..Len(a) :
        /\ a[i] > b[i]
        /\ \A j \in 1..(i - 1) : a[j] = b[j]

\* Quotient bits and remainder of the first i bits of `bits` over d.
RECURSIVE DivBits(_, _, _)
DivBits(bits, i, d) ==
    IF i = 0 THEN <<<<>>, 0>>
    ELSE LET c == IF i % Limb = 0 THEN Limb ELSE i % Limb
             prev == DivBits(bits, i - c, d)
             r == prev[2] * 2^c + BitsVal(bits, i - c + 1, i)
         IN  <<prev[1] \o ValBits(r \div d, c), r % d>>

\* The float nearest to (-1)^s * bits * 2^e, ties to even.
F64Round(s, bits, e) ==
    LET b == Strip(bits)
        n == Len(b)
    IN  IF n = 0 THEN F64Zero
        ELSE IF n <= 53 THEN [s |-> s, m |-> b \o Zeros(53 - n), e |-> e - (53 - n)]
        ELSE LET keep == SubSeq(b, 1, 53)
                 up == /\ b[54] = 1
                       /\ \/ keep[53] = 1
                          \/ \E i \in 55..n : b[i] = 1
                 sum == AddBits(keep, Zeros(53), 53, 1)
             IN  IF ~up THEN [s |-> s, m |-> keep, e |-> e + (n - 53)]
                 ELSE IF Len(sum) = 53 THEN [s |-> s, m |-> sum, e |-> e + (n - 53)]
                 ELSE [s |-> s, m |-> SubSeq(sum, 1, 53), e |-> e + (n - 53) + 1]

\* The float nearest to (-1)^s * bits * 2^e / d, for an integer d > 0: the
\* quotient to at least 56 bits, a last bit that says whether a remainder is
\* left, then one rounding.
F64Quotient(s, bits, e, d) ==
    LET k == 56 + Len(IntBits(d))
        shifted == bits \o Zeros(k)
        qr == DivBits(shifted, Len(shifted), d)
    IN  F64Round(s, Append(qr[1], IF qr[2] = 0 THEN 0 ELSE 1), e - k - 1)

\* The float that a decimal value of the lexicon is read as.
F64Of(x) ==
    IF x[1] = 0 THEN F64Zero
    ELSE F64Quotient(IF x[1] < 0 THEN 1 ELSE 0, IntBits(Abs(x[1])), 0, x[2])

\* x + y on floats.
F64Add(x, y) ==
    IF x.m = <<>> THEN y
    ELSE IF y.m = <<>> THEN x
    ELSE LET e0 == IF x.e < y.e THEN x.e ELSE y.e
             a0 == x.m \o Zeros(x.e - e0)
             b0 == y.m \o Zeros(y.e - e0)
             n == IF Len(a0) > Len(b0) THEN Len(a0) ELSE Len(b0)
             a == Zeros(n - Len(a0)) \o a0
             b == Zeros(n - Len(b0)) \o b0
         IN  IF x.s = y.s THEN F64Round(x.s, AddBits(a, b, n, 0), e0)
             ELSE IF a = b THEN F64Zero
             ELSE IF GreaterBits(a, b) THEN F64Round(x.s, SubBits(a, b, n, 0), e0)
             ELSE F64Round(y.s, SubBits(b, a, n, 0), e0)

\* x / n on floats, n = len(news) > 0.
F64DivInt(x, n) ==
    IF x.m = <<>> THEN F64Zero ELSE F64Quotient(x.s, x.m, x.e, n)

\* total_polarity after the first k records, as a float.
RECURSIVE F64SumPolarity(_, _)
F64SumPolarity(feed, k) ==
    IF k = 0 THEN F64Zero
    ELSE F64Add(F64SumPolarity(feed, k - 1),
                F64Of(Polarity(ExtractTitle(feed[k]))))

\* avg_polarity as a float.
F64AvgPolarity(feed) ==
    IF feed # <<>>
    THEN F64DivInt(F64SumPolarity(feed, Len(feed)), Len(feed))
    ELSE F64Zero

-----------------------------------------------------------------------------
(* The per-ticker block of src/app.py, statement group by statement group  *)

\* Recommend with >= and <= for > and <.
Recommend_inclusive(score) ==
    IF RLe(Rat(1, 10), score) THEN "BUY"
    ELSE IF RLe(score, Rat(-1, 10)) THEN "SELL"
    ELSE "HOLD"

\* BUY / SELL / HOLD from the adjusted sentiment.
Recommend(score) ==
    IF RGt(score, Rat(1, 10)) THEN "BUY"
    ELSE IF RLt(score, Rat(-1, 10)) THEN "SELL"
    ELSE "HOLD"

\* TargetPrice with the parenthesis closed early:
\* current_price * (1 + adjusted_sentiment) * 0.3
TargetPrice_misplaced_weight(price, score) ==
    RMul(RMul(price, RAdd(Num(1), score)), Rat(3, 10))

\* current_price * (1 + adjusted_sentiment * 0.3)
TargetPrice(price, score) ==
    RMul(price, RAdd(Num(1), RMul(score, Rat(3, 10))))

\* UpsidePercent without the subtraction: (target_price / current_price) * 100
UpsidePercent_ratio(target, price) ==
    RMul(RDiv(target, price), Num(100))

\* ((target_price - current_price) / current_price) * 100, current_price # 0
UpsidePercent(target, price) ==
    RMul(RDiv(RSub(target, price), price), Num(100))

\* RiskRating with <= for <.
RiskRating_inclusive(b) ==
    IF RLe(b, Rat(4, 5)) THEN "Low"
    ELSE IF RLe(b, Rat(3, 2)) THEN "Medium"
    ELSE "High"

\* Risk rating based on beta (a number).
RiskRating(b) ==
    IF RLt(b, Rat(4, 5)) THEN "Low"
    ELSE IF RLt(b, Rat(3, 2)) THEN "Medium"
    ELSE "High"

\* SocialBuzz with >= for >.
SocialBuzz_inclusive(n) ==
    IF n >= 15 THEN "Very High"
    ELSE IF n >= 8 THEN "High"
    ELSE IF n >= 3 THEN "Moderate"
    ELSE "Low"

\* Social buzz based on news volume.
SocialBuzz(n) ==
    IF n > 15 THEN "Very High"
    ELSE IF n > 8 THEN "High"
    ELSE IF n > 3 THEN "Moderate"
    ELSE "Low"

\* f"{n * 500}+" ... f"<{n * 100}": the sign that goes with the number, and
\* the number.
BuzzMentions(n) ==
    IF n > 15 THEN <<"+", n * 500>>
    ELSE IF n > 8 THEN <<"+", n * 300>>
    ELSE IF n > 3 THEN <<"+", n * 150>>
    ELSE <<"<", n * 100>>

\* info = stock.info; news = stock.news; hist = stock.history(...)
FetchOf(infos, feeds) ==
    /\ pc = "start"
    /\ cli.pc = "idle"
    /\ \E i \in infos, n \in feeds, h \in Histories :
          /\ info' = i
          /\ news' = n
          /\ hist' = h
    /\ pc' = "fetched"
    /\ UNCHANGED <<error, fundamentals, selected_scenario, sentiment, signal,
                   pricing, risk_rating, buzz, progress_value, cli>>
    /\ UNCHANGED <<page, script>>

Fetch == FetchOf(Infos, NewsFeeds)

\* current_price = info.get('currentPrice', info.get('regularMarketPrice', 0))
\* beta = info.get('beta', 1.0)
Fundamentals ==
    /\ pc = "fetched"
    /\ current_price' =
          Get(info, "currentPrice", Get(info, "regularMarketPrice", Num(0)))
    /\ beta' = Get(info, "beta", Num(1))
    /\ pc' = "fundamentals"
    /\ UNCHANGED <<error, fetched, selected_scenario, sentiment, signal,
                   pricing, risk_rating, buzz, progress_value, cli>>
    /\ page' = [page EXCEPT
                   !.market_cap = format_large_number(Get(info, "marketCap", None))]
    /\ UNCHANGED <<hist, script>>

\* selected_scenario = st.selectbox("What if...", [...])
ScenarioOf(names) ==
    /\ pc = "fundamentals"
    /\ \E s \in names : selected_scenario' = s
    /\ pc' = "scenario"
    /\ UNCHANGED <<error, fetched, fundamentals, sentiment, signal, pricing,
                   risk_rating, buzz, progress_value, cli>>
    /\ UNCHANGED <<hist, page, script>>

ScenarioPlanning == ScenarioOf(ScenarioNames)

\* The loop over news and avg_polarity.
Sentiment ==
    /\ pc = "scenario"
    /\ total_polarity' = SumPolarity(news, Len(news))
    /\ analyzed_news' = Analyze(news)
    /\ avg_polarity' = AvgPolarity(news)
    /\ pc' = "sentiment"
    /\ UNCHANGED <<error, fetched, fundamentals, selected_scenario, signal,
                   pricing, risk_rating, buzz, progress_value, cli>>
    /\ UNCHANGED <<hist, page, script>>

\* base_sentiment, adjusted_sentiment and the recommendation.
Recommendation ==
    /\ pc = "sentiment"
    /\ base_sentiment' = avg_polarity
    /\ adjusted_sentiment' = apply_scenario(avg_polarity, selected_scenario)
    /\ recommendation' =
          Recommend(apply_scenario(avg_polarity, selected_scenario))
    /\ pc' = "recommendation"
    /\ UNCHANGED <<error, fetched, fundamentals, selected_scenario, sentiment,
                   pricing, risk_rating, buzz, progress_value, cli>>
    /\ UNCHANGED <<hist, page, script>>

\* target_price, then upside_percent; the division raises ZeroDivisionError
\* when current_price is 0, after target_price has been bound.
Target ==
    /\ pc = "recommendation"
    /\ target_price' = TargetPrice(current_price, adjusted_sentiment)
    /\ IF current_price = Num(0)
       THEN /\ error' = "ZeroDivisionError"
            /\ pc' = "aborted"
            /\ UNCHANGED upside_percent
       ELSE /\ upside_percent' =
                  UpsidePercent(TargetPrice(current_price, adjusted_sentiment),
                                current_price)
            /\ pc' = "target"
            /\ UNCHANGED error
    /\ UNCHANGED <<fetched, fundamentals, selected_scenario, sentiment, signal,
                   risk_rating, buzz, progress_value, cli>>
    /\ UNCHANGED <<hist, page, script>>

\* `beta < 0.8` raises TypeError when beta is None.
Risk ==
    /\ pc = "target"
    /\ IF IsNum(beta)
       THEN /\ risk_rating' = RiskRating(beta)
            /\ pc' = "risk"
            /\ UNCHANGED error
       ELSE /\ error' = "TypeError"
            /\ pc' = "aborted"
            /\ UNCHANGED risk_rating
    /\ UNCHANGED <<fetched, fundamentals, selected_scenario, sentiment, signal,
                   pricing, buzz, progress_value, cli>>
    /\ UNCHANGED <<hist, page, script>>

\* news_volume = len(analyzed_news) if analyzed_news else 0
Buzz ==
    /\ pc = "risk"
    /\ news_volume' = Len(analyzed_news)
    /\ social_buzz' = SocialBuzz(Len(analyzed_news))
    /\ buzz_mentions' = BuzzMentions(Len(analyzed_news))
    /\ pc' = "buzz"
    /\ UNCHANGED <<error, fetched, fundamentals, selected_scenario, sentiment,
                   signal, pricing, risk_rating, progress_value, cli>>
    /\ UNCHANGED <<hist, page, script>>

\* st.progress((adjusted_sentiment + 1) / 2): Streamlit raises
\* StreamlitAPIException for a float outside [0.0, 1.0].
SentimentCard ==
    /\ pc = "buzz"
    /\ progress_value' = RDiv(RAdd(adjusted_sentiment, Num(1)), Num(2))
    /\ IF /\ RLe(Num(0), RDiv(RAdd(adjusted_sentiment, Num(1)), Num(2)))
          /\ RLe(RDiv(RAdd(adjusted_sentiment, Num(1)), Num(2)), Num(1))
       THEN /\ pc' = "card"
            /\ UNCHANGED error
       ELSE /\ error' = "StreamlitAPIException"
            /\ pc' = "aborted"
    /\ UNCHANGED <<fetched, fundamentals, selected_scenario, sentiment, signal,
                   pricing, risk_rating, buzz, cli>>
    /\ UNCHANGED <<hist, page, script>>

\* The locals of the block as they are before the block has run.
ResetLocals ==
    /\ pc' = "start"
    /\ error' = ""
    /\ info' = <<>>
    /\ news' = <<>>
    /\ current_price' = None
    /\ beta' = None
    /\ selected_scenario' = Unbound
    /\ total_polarity' = None
    /\ analyzed_news' = <<>>
    /\ avg_polarity' = None
    /\ base_sentiment' = None
    /\ adjusted_sentiment' = None
    /\ recommendation' = Unbound
    /\ target_price' = None
    /\ upside_percent' = None
    /\ risk_rating' = Unbound
    /\ news_volume' = -1
    /\ social_buzz' = Unbound
    /\ buzz_mentions' = Unbound
    /\ progress_value' = None
    /\ hist' = Unbound
    /\ page' = BlankPage

\* Streamlit runs the script again from the top: every local is gone.
Rerun ==
    /\ pc \in {"card", "aborted"}
    /\ ResetLocals
    /\ UNCHANGED <<script, cli>>

-----------------------------------------------------------------------------
(* The dashboard script of src/app.py around the per-ticker block: a run   *)
(* of the script from the sidebar to the end of the breakdown loop, and    *)
(* the session that lasts from run to run                                  *)

\* Two of popular_tickers of the US market.
Tickers == {"AAPL", "MSFT"}

\* x in list
InList(x, list) == \E k \in 1..Len(list) : list[k] = x

\* The values of st.multiselect: options in the order they were picked.
Selections ==
    {<<>>} \cup {<<t>> : t \in Tickers}
    \cup {pair \in Tickers \X Tickers : pair[1] # pair[2]}

\* What is typed in st.text_input, and custom_ticker.upper().
CustomInputs == {"", "msft"}

upper(text) == IF text = "msft" THEN "MSFT" ELSE text

\* ListRemove that drops x and everything after it.
ListRemove_truncating(list, x) ==
    LET k == CHOOSE j \in 1..Len(list) :
                 list[j] = x /\ \A h \in 1..(j - 1) : list[h] # x
    IN  SubSeq(list, 1, k - 1)

\* list.remove(x): the list without the first x.
ListRemove(list, x) ==
    LET k == CHOOSE j \in 1..Len(list) :
                 list[j] = x /\ \A h \in 1..(j - 1) : list[h] # x
    IN  SubSeq(list, 1, k - 1) \o SubSeq(list, k + 1, Len(list))

\* ToggleButton that offers Add whatever the watchlist holds.
ToggleButton_always_add(watchlist, ticker) == "add"

\* The button of the watchlist toggle: Remove for a ticker of the
\* watchlist, Add for any other.
ToggleButton(watchlist, ticker) ==
    IF InList(ticker, watchlist) THEN "remove" ELSE "add"

\* The ticker of the tab that the breakdown loop is in.
Ticker == run.selected_tickers[run.i]

LoadKey == Key("Load from Watchlist", "")

\* An interaction in the browser makes Streamlit run the script from the
\* top: at most one button of the page is the pressed one, the page is
\* built anew, and the session state stays.
ScriptStart ==
    /\ run.pc \in {"idle", "ended"}
    /\ cli.pc = "idle"
    /\ \E k \in session.rendered \cup {NoKey} :
          run' = [NoRun EXCEPT !.pc = "sidebar", !.clicked = k]
    /\ session' = [session EXCEPT !.rendered = {}]
    /\ ResetLocals
    /\ UNCHANGED cli

\* The watchlist section of the sidebar: the selectbox over the watchlist
\* and the "Load from Watchlist" button, when the watchlist is not empty.
WatchlistSection ==
    /\ run.pc = "sidebar"
    /\ IF session.watchlist # <<>>
       THEN /\ \E j \in 1..Len(session.watchlist) :
                  run' = [run EXCEPT
                             !.pc = "select",
                             !.watchlist_ticker = session.watchlist[j],
                             !.selected_tickers =
                                 IF run.clicked = LoadKey
                                 THEN <<session.watchlist[j]>> ELSE @,
                             !.loaded =
                                 IF run.clicked = LoadKey
                                 THEN session.watchlist[j] ELSE @]
            /\ session' = [session EXCEPT !.rendered = @ \cup {LoadKey}]
       ELSE /\ run' = [run EXCEPT !.pc = "select"]
            /\ UNCHANGED session
    /\ UNCHANGED <<pc, error, fetched, fundamentals, selected_scenario,
                   sentiment, signal, pricing, risk_rating, buzz,
                   progress_value, hist, page, cli>>

\* selected_tickers = st.multiselect(...), the custom ticker, and st.stop()
\* when nothing is selected.
SelectStocks ==
    /\ run.pc = "select"
    /\ \E selection \in Selections, text \in CustomInputs :
          LET custom_ticker == upper(text)
              tickers == IF text # "" /\ ~InList(custom_ticker, selection)
                         THEN Append(selection, custom_ticker)
                         ELSE selection
          IN  run' = [run EXCEPT
                         !.selected_tickers = tickers,
                         !.pc = IF tickers = <<>> THEN "ended" ELSE "compare"]
    /\ UNCHANGED <<pc, error, fetched, fundamentals, selected_scenario,
                   sentiment, signal, pricing, risk_rating, buzz,
                   progress_value, hist, page, session, cli>>

\* The data dictionary and, for more than one ticker, the comparison
\* section, which reads stock.info of every selected ticker.
Comparison ==
    /\ run.pc = "compare"
    /\ pc = "start"
    /\ \/ /\ run' = [run EXCEPT !.pc = "breakdown", !.i = 1]
          /\ UNCHANGED <<pc, error>>
       \/ \* stock.info raises
          /\ Len(run.selected_tickers) > 1
          /\ pc' = "aborted"
          /\ error' = "Exception"
          /\ UNCHANGED run
    /\ UNCHANGED <<fetched, fundamentals, selected_scenario, sentiment,
                   signal, pricing, risk_rating, buzz, progress_value, hist,
                   page, session, cli>>

\* The data of the breakdown in a session: a quote with a price and a beta,
\* and info without a price; one feed; the selectbox left at "None".
SessionInfos == {[currentPrice |-> Num(100), beta |-> Rat(6, 5)], <<>>}
SessionFeeds == {<<Flat("solid demand")>>}
SessionScenarios == {"None"}

\* stock = data[ticker] and its info, news and history, in the tab of the
\* next ticker of selected_tickers.
BreakdownFetch ==
    /\ run.pc = "breakdown"
    /\ \/ FetchOf(SessionInfos, SessionFeeds)
       \/ \* stock.info raises
          /\ pc = "start"
          /\ pc' = "aborted"
          /\ error' = "Exception"
          /\ UNCHANGED <<fetched, fundamentals, selected_scenario, sentiment,
                         signal, pricing, risk_rating, buzz, progress_value,
                         hist, page, script, cli>>

\* The watchlist toggle: one button, Remove or Add, and when it is the
\* pressed one its effect and its st.success message.
WatchlistToggle ==
    /\ run.pc = "breakdown"
    /\ pc = "fetched"
    /\ run.toggled < run.i
    /\ LET button == Key(ToggleButton(session.watchlist, Ticker), Ticker)
       IN  session' =
              [session EXCEPT
                  !.rendered = @ \cup {button},
                  !.watchlist =
                      IF run.clicked # button THEN @
                      ELSE IF button[1] = "remove" THEN ListRemove(@, Ticker)
                      ELSE Append(@, Ticker)]
    /\ page' =
          [page EXCEPT
              !.toggle = ToggleButton(session.watchlist, Ticker),
              !.success =
                  IF run.clicked
                         # Key(ToggleButton(session.watchlist, Ticker), Ticker)
                  THEN @
                  ELSE IF ToggleButton(session.watchlist, Ticker) = "remove"
                  THEN "Removed"
                  ELSE "Added"]
    /\ run' = [run EXCEPT !.toggled = run.i]
    /\ UNCHANGED <<pc, error, fetched, fundamentals, selected_scenario,
                   sentiment, signal, pricing, risk_rating, buzz,
                   progress_value, hist, cli>>

\* The fundamentals of the tab, after the toggle.
TabFundamentals ==
    /\ run.toggled = run.i
    /\ Fundamentals

TabScenario == ScenarioOf(SessionScenarios)

\* generate_certificate: the texts drawn on the image; `now` is the minute
\* that datetime.now() returns.
generate_certificate(ticker, price, rec, score, pe_ratio, market_cap, now) ==
    [ticker |-> ticker, recommendation |-> rec, price |-> Fixed2(price),
     sentiment_score |-> Fixed2(score), pe_ratio |-> pe_ratio,
     market_cap |-> market_cap, generated |-> now]

\* sum(n['polarity'] for n in analyzed_news)
RECURSIVE SumOfPolarities(_, _)
SumOfPolarities(entries, k) ==
    IF k = 0 THEN Num(0)
    ELSE RAdd(SumOfPolarities(entries, k - 1), entries[k].polarity)

\* generate_pdf_report: the texts of the story; `now` as above.
generate_pdf_report(ticker, info_, entries, rec, target, risk, b, score, social, mentions, now) ==
    [ticker |-> ticker, generated |-> now, recommendation |-> rec,
     current_price |->
         Fixed2(Get(info_, "currentPrice",
                    Get(info_, "regularMarketPrice", Num(0)))),
     target_price |-> Fixed2(target),
     risk_level |-> <<risk, Fixed2(b)>>,
     sentiment_score |-> Fixed2(score),
     social_buzz |-> <<social, mentions>>,
     market_cap |-> format_large_number(Get(info_, "marketCap", None)),
     pe_ratio |-> Get(info_, "trailingPE", "N/A"),
     average_sentiment |->
         IF entries # <<>>
         THEN <<Fixed2(RDiv(SumOfPolarities(entries, Len(entries)),
                            Num(Len(entries)))),
                Len(entries)>>
         ELSE <<>>]

\* cert_buffer = generate_certificate(...), built on every run.
Certificate ==
    /\ pc = "card"
    /\ pc' = "certificate"
    /\ page' = [page EXCEPT
                   !.certificate =
                       generate_certificate(
                           Ticker, current_price, recommendation,
                           adjusted_sentiment, Get(info, "trailingPE", "N/A"),
                           format_large_number(Get(info, "marketCap", None)),
                           session.clock)]
    /\ UNCHANGED <<error, fetched, fundamentals, selected_scenario, sentiment,
                   signal, pricing, risk_rating, buzz, progress_value, hist,
                   script, cli>>

\* The price chart, with indicators or without, and the PDF report section:
\* `if st.button("Generate PDF Report")` with the warning in its else branch.
\* show_indicators is the checkbox of the sidebar, first used here.
ChartAndReport ==
    /\ pc = "certificate"
    /\ pc' = "report"
    /\ \E show_indicators \in BOOLEAN :
          page' = [page EXCEPT
                      !.chart =
                          IF hist # "empty" /\ show_indicators THEN "indicators"
                          ELSE IF hist # "empty" THEN "candlestick"
                          ELSE "none",
                      !.pdf =
                          IF run.clicked = Key("pdf_report", Ticker)
                          THEN generate_pdf_report(
                                   Ticker, info, analyzed_news, recommendation,
                                   target_price, risk_rating, beta,
                                   adjusted_sentiment, social_buzz,
                                   buzz_mentions, session.clock)
                          ELSE @,
                      !.warning = run.clicked # Key("pdf_report", Ticker)]
    /\ session' = [session EXCEPT
                      !.rendered = @ \cup {Key("pdf_report", Ticker)}]
    /\ UNCHANGED <<error, fetched, fundamentals, selected_scenario, sentiment,
                   signal, pricing, risk_rating, buzz, progress_value, hist,
                   run, cli>>

\* The loop goes on to the tab of the next ticker; every local of the block
\* is assigned again before it is read.
NextTicker ==
    /\ run.pc = "breakdown"
    /\ pc = "report"
    /\ run.i < Len(run.selected_tickers)
    /\ run' = [run EXCEPT !.i = @ + 1, !.analyzed = Append(@, Ticker)]
    /\ ResetLocals
    /\ UNCHANGED <<session, cli>>

\* The script run ends: after the last tab, or with the first exception
\* that no handler catches.
ScriptEnd ==
    /\ run.pc \in {"compare", "breakdown"}
    /\ \/ /\ pc = "report"
          /\ run.i = Len(run.selected_tickers)
          /\ run' = [run EXCEPT !.pc = "ended", !.analyzed = Append(@, Ticker)]
       \/ /\ pc = "aborted"
          /\ run' = [run EXCEPT !.pc = "ended"]
    /\ UNCHANGED <<pc, error, fetched, fundamentals, selected_scenario,
                   sentiment, signal, pricing, risk_rating, buzz,
                   progress_value, hist, page, session, cli>>

NextSession ==
    \/ ScriptStart
    \/ WatchlistSection
    \/ SelectStocks
    \/ Comparison
    \/ BreakdownFetch
    \/ WatchlistToggle
    \/ TabFundamentals
    \/ TabScenario
    \/ Sentiment
    \/ Recommendation
    \/ Target
    \/ Risk
    \/ Buzz
    \/ SentimentCard
    \/ Certificate
    \/ ChartAndReport
    \/ NextTicker
    \/ ScriptEnd

SpecSession == Init /\ [][NextSession]_vars

-----------------------------------------------------------------------------
(* Runs of the script that rebuild the report of one ticker, while the     *)
(* clock of datetime.now() advances                                        *)

\* The inputs of the report, and what the block derives from them.
ReportInputs ==
    [ticker |-> Ticker, scenario |-> selected_scenario,
     current_price |-> current_price, beta |-> beta, news |-> news]

AnalysisResult ==
    [base_sentiment |-> base_sentiment,
     adjusted_sentiment |-> adjusted_sentiment,
     recommendation |-> recommendation, target_price |-> target_price,
     upside_percent |-> upside_percent, risk_rating |-> risk_rating,
     news_volume |-> news_volume, social_buzz |-> social_buzz]

ReportInfos ==
    {[currentPrice |-> p, beta |-> Rat(6, 5)] : p \in {Num(100), Num(50)}}
ReportFeeds == {<<>>, <<Flat("solid demand")>>}
ReportScenarios == {"None", "Interest Rates +1%"}

\* A run of the script with AAPL selected, taken to the top of its tab;
\* the report of the run before is kept for comparison.
ReportRun ==
    /\ cli.pc = "idle"
    /\ \/ run.pc = "idle"
       \/ run.pc = "breakdown" /\ pc = "report"
    /\ \E k \in session.rendered \cup {NoKey} :
          run' = [NoRun EXCEPT !.pc = "breakdown", !.clicked = k,
                               !.selected_tickers = <<"AAPL">>,
                               !.i = 1, !.toggled = 1]
    /\ session' =
          [session EXCEPT
              !.rendered = {},
              !.issued = IF pc = "report"
                         THEN <<[inputs |-> ReportInputs,
                                 result |-> AnalysisResult,
                                 certificate |-> page.certificate,
                                 pdf |-> page.pdf]>>
                         ELSE @]
    /\ ResetLocals
    /\ UNCHANGED cli

ReportFetch ==
    /\ run.pc = "breakdown"
    /\ FetchOf(ReportInfos, ReportFeeds)

ReportScenario == ScenarioOf(ReportScenarios)

\* A minute passes.
Tick ==
    /\ session.clock < MaxClock
    /\ session' = [session EXCEPT !.clock = @ + 1]
    /\ UNCHANGED <<pc, error, fetched, fundamentals, selected_scenario,
                   sentiment, signal, pricing, risk_rating, buzz,
                   progress_value, hist, page, run, cli>>

NextReport ==
    \/ ReportRun
    \/ ReportFetch
    \/ Fundamentals
    \/ ReportScenario
    \/ Sentiment
    \/ Recommendation
    \/ Target
    \/ Risk
    \/ Buzz
    \/ SentimentCard
    \/ Certificate
    \/ ChartAndReport
    \/ Tick

SpecReport == Init /\ [][NextReport]_vars

-----------------------------------------------------------------------------
(* `analyze` of src/main.py                                                *)

\* CliFetch with the handler of stock.news returning like the one of
\* stock.info.
CliFetch_news_error_returns ==
    /\ pc = "start"
    /\ cli.pc = "idle"
    /\ \/ cli' = [cli EXCEPT !.pc = "returned", !.error = "info",
                             !.printed = {"Error fetching info"}]
       \/ cli' = [cli EXCEPT !.pc = "returned", !.error = "news",
                             !.printed = {"Error fetching news"}]
       \/ \E n \in NewsFeeds :
             cli' = [cli EXCEPT !.pc = "fetched", !.news = n]
    /\ UNCHANGED <<pc, error, fetched, fundamentals, selected_scenario,
                   sentiment, signal, pricing, risk_rating, buzz,
                   progress_value>>
    /\ UNCHANGED <<hist, page, script>>

\* stock.info, then stock.news, each in its own try block.
CliFetch ==
    /\ pc = "start"
    /\ cli.pc = "idle"
    /\ \/ \* stock.info raises: the error is printed and the command returns
          cli' = [cli EXCEPT !.pc = "returned", !.error = "info",
                             !.printed = {"Error fetching info"}]
       \/ \* stock.news raises: the error is printed and news = []
          cli' = [cli EXCEPT !.pc = "fetched", !.error = "news", !.news = <<>>,
                             !.printed = {"Error fetching news"}]
       \/ \E n \in NewsFeeds :
             cli' = [cli EXCEPT !.pc = "fetched", !.news = n]
    /\ UNCHANGED <<pc, error, fetched, fundamentals, selected_scenario,
                   sentiment, signal, pricing, risk_rating, buzz,
                   progress_value>>
    /\ UNCHANGED <<hist, page, script>>

\* The loop over news and avg_polarity.
CliSentiment ==
    /\ cli.pc = "fetched"
    /\ cli' = [cli EXCEPT !.pc = "analyzed",
                          !.total_polarity = SumPolarity(cli.news, Len(cli.news)),
                          !.analyzed_news = Analyze(cli.news),
                          !.avg_polarity = AvgPolarity(cli.news)]
    /\ UNCHANGED <<pc, error, fetched, fundamentals, selected_scenario,
                   sentiment, signal, pricing, risk_rating, buzz,
                   progress_value>>
    /\ UNCHANGED <<hist, page, script>>

\* The header panel, the news table and the notice for an empty feed.
CliDisplay ==
    /\ cli.pc = "analyzed"
    /\ cli' = [cli EXCEPT
                  !.pc = "done",
                  !.sentiment_label = get_sentiment_label(cli.avg_polarity),
                  !.printed = cli.printed \cup {"header", "table"}
                      \cup (IF cli.news = <<>>
                            THEN {"No recent news found to analyze."}
                            ELSE {})]
    /\ UNCHANGED <<pc, error, fetched, fundamentals, selected_scenario,
                   sentiment, signal, pricing, risk_rating, buzz,
                   progress_value>>
    /\ UNCHANGED <<hist, page, script>>

\* The process ends; the next invocation starts afresh.
CliExit ==
    /\ cli.pc \in {"done", "returned"}
    /\ cli' = CliIdle
    /\ UNCHANGED <<pc, error, fetched, fundamentals, selected_scenario,
                   sentiment, signal, pricing, risk_rating, buzz,
                   progress_value>>
    /\ UNCHANGED <<hist, page, script>>

-----------------------------------------------------------------------------

Next ==
    \/ Fetch
    \/ Fundamentals
    \/ ScenarioPlanning
    \/ Sentiment
    \/ Recommendation
    \/ Target
    \/ Risk
    \/ Buzz
    \/ SentimentCard
    \/ Rerun
    \/ CliFetch
    \/ CliSentiment
    \/ CliDisplay
    \/ CliExit

Spec == Init /\ [][Next]_vars

-----------------------------------------------------------------------------
(* Properties                                                              *)

\* The statement groups that have run, read off the position.
Recommended == pc \in {"recommendation", "target", "risk", "buzz", "card", "aborted"}
Priced == pc \in {"target", "risk", "buzz", "card", "aborted"}
Completed == pc = "card"

\* y = x * n / d, by cross-multiplication on the integers.
IsTimes(y, x, n, d) == y[1] * x[2] * d = x[1] * n * y[2]

\* C1: once the recommendation is made, it is BUY exactly when the adjusted
\* score is above 0.1, SELL exactly when it is below -0.1 and HOLD otherwise,
\* so 0.1 and -0.1 themselves give HOLD.
C1_RecommendationThresholds ==
    Recommended =>
        LET s == adjusted_sentiment
        IN  /\ recommendation \in {"BUY", "SELL", "HOLD"}
            /\ recommendation = "BUY" <=> 10 * s[1] > s[2]
            /\ recommendation = "SELL" <=> 10 * s[1] < -s[2]
            /\ recommendation = "HOLD" <=> (10 * s[1] <= s[2] /\ 10 * s[1] >= -s[2])

\* An adjusted score of exactly 0.1 has been classified.
C1_Witness ==
    /\ Recommended
    /\ adjusted_sentiment = <<1, 10>>
    /\ recommendation = "HOLD"

\* C2: for each of the six recognized scenarios the adjusted score is the
\* base score times that scenario's multiplier: 1.0, 0.75, 1.3, 0.5, 1.4 and
\* 0.65; under "None" it is the base score itself.
C2_ScenarioMultipliers ==
    Recommended =>
        LET b == base_sentiment
            a == adjusted_sentiment
        IN  /\ selected_scenario = "None" => a = b
            /\ selected_scenario = "Interest Rates +1%" => IsTimes(a, b, 3, 4)
            /\ selected_scenario = "Tech Acquisition Announced" => IsTimes(a, b, 13, 10)
            /\ selected_scenario = "Global Recession Fear" => IsTimes(a, b, 1, 2)
            /\ selected_scenario = "Earnings Beat Expectation" => IsTimes(a, b, 7, 5)
            /\ selected_scenario = "Supply Chain Disruption" => IsTimes(a, b, 13, 20)

\* A base score of 1/6 adjusted by "Earnings Beat Expectation" to 7/30.
C2_Witness ==
    /\ Recommended
    /\ selected_scenario = "Earnings Beat Expectation"
    /\ base_sentiment = <<1, 6>>
    /\ adjusted_sentiment = <<7, 30>>

\* C3: with a scenario name outside the six, the adjusted score equals the
\* base score and the block does not abort: whenever the price is not zero
\* and beta is a number it never ends in an exception, and when it has run
\* to the sentiment card the recommendation, the target price and the risk
\* rating are all set.
C3_UnknownScenarioNeutral ==
    (Recommended /\ selected_scenario \notin
        {"None", "Interest Rates +1%", "Tech Acquisition Announced",
         "Global Recession Fear", "Earnings Beat Expectation",
         "Supply Chain Disruption"}) =>
        /\ adjusted_sentiment = base_sentiment
        /\ (current_price # Num(0) /\ IsNum(beta)) => pc # "aborted"
        /\ Completed =>
              /\ recommendation \in {"BUY", "SELL", "HOLD"}
              /\ IsNum(target_price)
              /\ risk_rating \in {"Low", "Medium", "High"}

\* The block has run to the end under an unrecognized scenario, with a
\* score that is not zero.
C3_Witness ==
    /\ Completed
    /\ selected_scenario = "Oil Price Shock"
    /\ base_sentiment = <<-7, 10>>
    /\ adjusted_sentiment = <<-7, 10>>
    /\ recommendation = "SELL"

\* C4: whenever current_price is zero or negative, the pricing step ends in
\* InvalidPriceError and leaves target_price and upside_percent unset.
C4_InvalidPriceError ==
    (Priced /\ RLe(current_price, Num(0))) =>
        /\ pc = "aborted"
        /\ error = "InvalidPriceError"
        /\ target_price = None
        /\ upside_percent = None

Rated == pc \in {"risk", "buzz", "card"} \/ (pc = "aborted" /\ error = "StreamlitAPIException")

\* C6: the risk rating is decided by beta alone: Low when beta < 0.8, Medium
\* when 0.8 <= beta < 1.5, High when beta >= 1.5; and for a beta that is a
\* number the rating step never raises.
C6_RiskByBeta ==
    /\ Rated =>
          /\ IsNum(beta)
          /\ risk_rating =
                IF 5 * beta[1] < 4 * beta[2] THEN "Low"
                ELSE IF 2 * beta[1] < 3 * beta[2] THEN "Medium"
                ELSE "High"
    /\ (pc = "aborted" /\ error = "TypeError") => ~IsNum(beta)

\* beta = 0.8 rated Medium, under a SELL recommendation.
C6_Witness ==
    /\ Rated
    /\ beta = <<4, 5>>
    /\ risk_rating = "Medium"
    /\ recommendation = "SELL"

\* The sum of the polarity fields of a sequence of analysed headlines.
RECURSIVE PolaritySum(_)
PolaritySum(entries) ==
    IF entries = <<>> THEN Num(0)
    ELSE RAdd(Head(entries).polarity, PolaritySum(Tail(entries)))

\* base_score and article_count of a non-empty feed: one analysed headline
\* per record, in order, each with the polarity of its title, and the
\* average is their sum over the number of records.
Aggregated(feed, entries, avg) ==
    /\ Len(entries) = Len(feed)
    /\ \A i \in 1..Len(feed) :
          entries[i].polarity =
              Polarity(IF Has(feed[i], "title") /\ feed[i].title # ""
                       THEN feed[i].title
                       ELSE IF Has(feed[i], "content") /\ Has(feed[i].content, "title")
                            THEN feed[i].content.title
                            ELSE "")
    /\ IsNum(avg)
    /\ avg[1] * PolaritySum(entries)[2] * Len(feed)
          = PolaritySum(entries)[1] * avg[2]

\* C7: for a non-empty feed, in the dashboard and in the command line tool,
\* the average polarity is the sum of the headline polarities over the number
\* of records, every record (also one without a title) contributes one
\* polarity, and the news volume is the number of records.
C7_MeanOfAllRecords ==
    /\ (avg_polarity # None /\ news # <<>>) =>
          Aggregated(news, analyzed_news, avg_polarity)
    /\ (social_buzz # Unbound /\ news # <<>>) => news_volume = Len(news)
    /\ (cli.pc \in {"analyzed", "done"} /\ cli.news # <<>>) =>
          Aggregated(cli.news, cli.analyzed_news, cli.avg_polarity)

\* Three records, one of them without a title: mean (1 - 0.7 + 0) / 3 = 0.1
\* and a news volume of 3.
C7_Witness ==
    /\ social_buzz # Unbound
    /\ news = <<Flat("best quarter"), Untitled, Nested("bad outlook")>>
    /\ avg_polarity = <<1, 10>>
    /\ news_volume = 3

\* C8: an empty feed is a defined neutral result: average and base score 0,
\* news volume 0, buzz Low; with scenario "None" and a positive price the
\* recommendation is HOLD, the target price is the price and the upside is
\* 0; and the empty feed does not make the block fail (with a price that is
\* not zero and a beta that is a number, it never ends in an exception).
C8_EmptyFeedNeutral ==
    (pc # "start" /\ news = <<>>) =>
        /\ avg_polarity # None => (avg_polarity = <<0, 1>> /\ analyzed_news = <<>>)
        /\ Recommended => base_sentiment = <<0, 1>>
        /\ social_buzz # Unbound => (news_volume = 0 /\ social_buzz = "Low")
        /\ (Recommended /\ selected_scenario = "None") => recommendation = "HOLD"
        /\ (Priced /\ selected_scenario = "None" /\ RGt(current_price, Num(0))) =>
              (target_price = current_price /\ upside_percent = <<0, 1>>)
        /\ (current_price # Num(0) /\ IsNum(beta)) => pc # "aborted"

\* No headlines, scenario "None", price 50, beta 2.0: run to the end.
C8_Witness ==
    /\ Completed
    /\ news = <<>>
    /\ selected_scenario = "None"
    /\ current_price = <<50, 1>>
    /\ target_price = <<50, 1>>
    /\ recommendation = "HOLD"
    /\ social_buzz = "Low"
    /\ risk_rating = "High"

\* C9: the buzz tier of n articles is Very High for n > 15, High for
\* 8 < n <= 15, Moderate for 3 < n <= 8 and Low for n <= 3, n being the
\* number of records of the feed.
C9_BuzzTiers ==
    social_buzz # Unbound =>
        LET n == Len(news)
        IN  /\ news_volume = n
            /\ n > 15 => social_buzz = "Very High"
            /\ (8 < n /\ n <= 15) => social_buzz = "High"
            /\ (3 < n /\ n <= 8) => social_buzz = "Moderate"
            /\ n <= 3 => social_buzz = "Low"

\* Sixteen articles rated Very High.
C9_Witness ==
    /\ social_buzz = "Very High"
    /\ Len(news) = 16
    /\ news_volume = 16

\* C10: under every recognized scenario the base and the adjusted sentiment
\* both stay within [-1, 1].
C10_ScoreWithinUnitRange ==
    (Recommended /\ selected_scenario \in RecognizedScenarios) =>
        /\ RLe(Num(-1), base_sentiment) /\ RLe(base_sentiment, Num(1))
        /\ RLe(Num(-1), adjusted_sentiment) /\ RLe(adjusted_sentiment, Num(1))

\* The bijections of 1..n.
Perms(n) ==
    {f \in [1..n -> 1..n] : \A i, j \in 1..n : f[i] = f[j] => i = j}

\* The feed with records i and j exchanged.
Swapped(feed, i, j) ==
    [k \in 1..Len(feed) |->
        IF k = i THEN feed[j] ELSE IF k = j THEN feed[i] ELSE feed[k]]

\* Reorderings of a feed: every permutation of a feed of at most MaxNews
\* records; for a longer feed every exchange of two records and the reversal.
Reorderings(feed) ==
    IF Len(feed) <= MaxNews
    THEN {[k \in 1..Len(feed) |-> feed[f[k]]] : f \in Perms(Len(feed))}
    ELSE {Swapped(feed, i, j) : i, j \in 1..Len(feed)}
         \cup {[k \in 1..Len(feed) |-> feed[Len(feed) + 1 - k]]}

\* Over the rationals the aggregation does not depend on the order of the
\* records: the average polarity and the number of analysed articles of a
\* reordered feed are the ones computed, in the dashboard and in the command
\* line tool.
MeanOrderIndependentOverRationals ==
    /\ pc \in {"sentiment", "recommendation"} =>
          \A q \in Reorderings(news) :
             /\ AvgPolarity(q) = avg_polarity
             /\ Len(Analyze(q)) = Len(analyzed_news)
             /\ pc = "recommendation" => base_sentiment = AvgPolarity(q)
    /\ cli.pc = "analyzed" =>
          \A q \in Reorderings(cli.news) :
             /\ AvgPolarity(q) = cli.avg_polarity
             /\ Len(Analyze(q)) = Len(cli.analyzed_news)

\* C11: reordering the news records of a ticker produces the identical base
\* score and article count.  The loop adds the polarities from left to right
\* in binary64, where addition is not associative: the records of polarity
\* 0.4, 0.2, -0.1 average to 0.1666666666666667 in this order and to
\* 0.16666666666666666 in the reverse order.
C11_OrderIndependent ==
    pc = "sentiment" =>
        \A q \in Reorderings(news) :
            /\ F64AvgPolarity(q) = F64AvgPolarity(news)
            /\ Len(Analyze(q)) = Len(analyzed_news)

\* The title analysed for a record, read off the record's shape.
TitleOfShape(item, title) ==
    IF Has(item, "title") /\ item.title # ""
    THEN title = item.title
    ELSE IF Has(item, "content") /\ Has(item.content, "title")
         THEN title = item.content.title
         ELSE title = ""

\* One analysed headline per record, titled by the record's shape, and the
\* empty headline scored 0.
ShapesAccepted(feed, entries) ==
    /\ Len(entries) = Len(feed)
    /\ \A i \in 1..Len(feed) :
          /\ TitleOfShape(feed[i], entries[i].title)
          /\ entries[i].title = "" => entries[i].polarity = Num(0)

\* C16: the aggregation accepts both record shapes: a record with a
\* non-empty top-level title is analysed under that title, a record without
\* one under the title nested in its "content", and a record with a title in
\* neither place as the empty headline with polarity 0; every record is
\* counted and the loop does not raise, in the dashboard and in the command
\* line tool.
C16_BothRecordShapes ==
    /\ pc = "sentiment" => error = "" /\ ShapesAccepted(news, analyzed_news)
    /\ cli.pc = "analyzed" => ShapesAccepted(cli.news, cli.analyzed_news)

\* A feed with a flat record, a nested record and a record without a title
\* has been aggregated.
C16_Witness ==
    /\ pc = "sentiment"
    /\ news = <<Flat("best quarter"), Nested("bad outlook"), Untitled>>
    /\ analyzed_news[2].title = "bad outlook"
    /\ analyzed_news[3] = [title |-> "", polarity |-> Num(0)]

\* The sign of a number, and its class by the recommendation thresholds.
Sign(x) == IF x[1] > 0 THEN 1 ELSE IF x[1] < 0 THEN -1 ELSE 0

ClassOf(x) ==
    IF 10 * x[1] > x[2] THEN "BUY"
    ELSE IF 10 * x[1] < -x[2] THEN "SELL"
    ELSE "HOLD"

\* C20: every scenario multiplier, and the one of an unrecognised scenario,
\* is strictly positive, so the adjusted score has the sign of the base
\* score: a base score in the SELL range is never recommended BUY nor one in
\* the BUY range SELL, a base score of 0 is HOLD under every scenario, a
\* multiplier below 1 changes the class only from BUY or SELL to HOLD, a
\* multiplier above 1 only from HOLD to BUY or SELL, and a multiplier of 1
\* not at all.
C20_ScenarioKeepsSign ==
    /\ \A name \in ScenarioNames : Sign(Get(scenarios, name, Num(1))) = 1
    /\ Recommended =>
          LET m == Get(scenarios, selected_scenario, Num(1))
              was == ClassOf(base_sentiment)
          IN  /\ Sign(adjusted_sentiment) = Sign(base_sentiment)
              /\ was = "SELL" => recommendation # "BUY"
              /\ was = "BUY" => recommendation # "SELL"
              /\ base_sentiment = Num(0) => recommendation = "HOLD"
              /\ (RLt(m, Num(1)) /\ recommendation # was) =>
                    was \in {"BUY", "SELL"} /\ recommendation = "HOLD"
              /\ (RGt(m, Num(1)) /\ recommendation # was) =>
                    was = "HOLD" /\ recommendation \in {"BUY", "SELL"}
              /\ m = Num(1) => recommendation = was

\* A base score of 0.101 (BUY on its own) is HOLD under a multiplier of 0.5.
C20_Witness ==
    /\ Recommended
    /\ base_sentiment = <<101, 1000>>
    /\ selected_scenario = "Global Recession Fear"
    /\ recommendation = "HOLD"

\* The provider gave no usable value under the key: it is absent, or None.
Missing(d, key) == ~Has(d, key) \/ d[key] = None

\* C14: missing fundamentals never make the block raise: with no usable
\* beta (the key absent, or its value None) the analysis goes on with
\* beta = 1.0 and rates the risk Medium, and a missing market cap is shown
\* as "N/A".
C14_MissingFundamentals ==
    /\ (pc \notin {"start", "fetched"} /\ Missing(info, "beta")) =>
          /\ beta = Num(1)
          /\ error # "TypeError"
          /\ Rated => risk_rating = "Medium"
    /\ (pc \notin {"start", "fetched"} /\ Missing(info, "marketCap")) =>
          page.market_cap = [text |-> "N/A"]

\* C13: in a batch of several tickers a failure of one ticker (its fetch
\* raises, or its price is not positive) skips that ticker alone: when the
\* script run has ended, every selected ticker but the one that failed has
\* been analysed.
C13_BatchIsolation ==
    run.pc = "ended" =>
        \E failed \in 0..Len(run.selected_tickers) :
            /\ failed # 0 => pc = "aborted"
            /\ (failed # 0 /\ run.i # 0) => failed = run.i
            /\ \A k \in 1..Len(run.selected_tickers) :
                  k # failed => InList(run.selected_tickers[k], run.analyzed)

\* The list without x, the order of the others kept.
Without(list, x) == SelectSeq(list, LAMBDA y : y # x)

\* C15: the watchlist changes only in the toggle of a tab, and each change
\* is one whole add or one whole remove of the tab's ticker: after an add
\* of t the watchlist is the previous one with t appended, after a remove
\* of t it is the previous one without t, the membership of every other
\* ticker is as before, and every other step of a run, the analysis of a
\* ticker included, leaves the watchlist as it found it.
C15_WatchlistAtomic ==
    [][session.watchlist' # session.watchlist =>
          /\ run.pc = "breakdown" /\ pc = "fetched" /\ pc' = "fetched"
          /\ \/ /\ ~InList(Ticker, session.watchlist)
                /\ session.watchlist' = Append(session.watchlist, Ticker)
             \/ /\ InList(Ticker, session.watchlist)
                /\ session.watchlist' = Without(session.watchlist, Ticker)
          /\ \A u \in Tickers \ {Ticker} :
                InList(u, session.watchlist') <=> InList(u, session.watchlist)
    ]_vars

\* AAPL has been removed from a watchlist that held AAPL and MSFT.
C15_Witness ==
    /\ run.pc = "breakdown"
    /\ Ticker = "AAPL"
    /\ page.success = "Removed"
    /\ session.watchlist = <<"MSFT">>

\* C17: when "Load from Watchlist" is pressed with the entry w chosen, the
\* tickers that the run fetches and analyses are exactly [w].
C17_LoadFromWatchlist ==
    run.loaded # Unbound =>
        /\ run.pc \in {"compare", "breakdown"} =>
              run.selected_tickers = <<run.loaded>>
        /\ (run.pc = "ended" /\ pc = "report") => run.analyzed = <<run.loaded>>

\* C18: "No price history available." is shown only for a ticker whose
\* price history is empty, whatever the PDF button and the indicators
\* checkbox are.
C18_NoHistoryWarning ==
    page.warning => hist = "empty"

\* No element occurs twice in the list.
NoDuplicates(list) ==
    \A j, k \in 1..Len(list) : list[j] = list[k] => j = k

\* C19: over any sequence of runs and Add/Remove presses the watchlist
\* holds no ticker twice: the toggle offers Add only for a ticker that is
\* not in the watchlist and Remove only for one that is, after an Add the
\* ticker is in it and after a Remove it is not.
C19_WatchlistNoDuplicates ==
    /\ NoDuplicates(session.watchlist)
    /\ page.toggle # Unbound =>
          /\ page.success = "Added" =>
                page.toggle = "add" /\ InList(Ticker, session.watchlist)
          /\ page.success = "Removed" =>
                page.toggle = "remove" /\ ~InList(Ticker, session.watchlist)
          /\ page.success = Unbound =>
                (page.toggle = "remove" <=> InList(Ticker, session.watchlist))

\* Both tickers are on the watchlist, after an Add for a second ticker.
C19_Witness ==
    /\ Len(session.watchlist) = 2
    /\ page.success = "Added"

\* C12: two runs with the same ticker, scenario, current price, beta and
\* news produce the same result, the same certificate and the same PDF
\* content, whenever each of them happens.
C12_ReportIdempotent ==
    (pc = "report" /\ session.issued # <<>>
        /\ session.issued[1].inputs = ReportInputs) =>
        /\ session.issued[1].result = AnalysisResult
        /\ session.issued[1].certificate = page.certificate
        /\ (session.issued[1].pdf # <<>> /\ page.pdf # <<>>) =>
              session.issued[1].pdf = page.pdf

\* C21: in `analyze`, when fetching the info fails the command reports the
\* error and returns: no sentiment is computed and nothing of the dashboard
\* is printed.  When only fetching the news fails the error is reported,
\* the news are the empty list and the command goes on: the average
\* polarity is 0, the label is NEUTRAL, and the header, the table and the
\* "No recent news found" notice are printed.
C21_CliFetchErrors ==
    /\ cli.error = "info" =>
          /\ cli.pc = "returned"
          /\ cli.printed = {"Error fetching info"}
          /\ cli.total_polarity = None
          /\ cli.avg_polarity = None
          /\ cli.analyzed_news = <<>>
          /\ cli.sentiment_label = Unbound
    /\ cli.pc = "returned" => cli.error = "info"
    /\ cli.error = "news" =>
          /\ cli.pc \in {"fetched", "analyzed", "done"}
          /\ cli.news = <<>>
          /\ "Error fetching news" \in cli.printed
          /\ cli.pc \in {"analyzed", "done"} =>
                cli.avg_polarity = Num(0) /\ cli.analyzed_news = <<>>
          /\ cli.pc = "done" =>
                /\ cli.sentiment_label = "NEUTRAL"
                /\ {"header", "table", "No recent news found to analyze."}
                       \subseteq cli.printed

\* The command has printed the dashboard after a failed news fetch.
C21_Witness ==
    /\ cli.pc = "done"
    /\ cli.error = "news"
    /\ "No recent news found to analyze." \in cli.printed

=============================================================================
